---- MODULE Spec2Model ----
\* Secure ephemeral container execution: the three sandbox variants of the
\* repository, driven against one model of the container engine.
\*   "sdk"   src/lib/agents/docker_sandbox.py  (session sandbox, SDK calls)
\*   "cli"   src/lib/agents/sandbox.py         (copy-only sandbox, docker CLI)
\*   "shell" src/dockersandbox/sandbox.py      (interactive shell sandbox)
EXTENDS Integers, Sequences, FiniteSets, TLC

\* ---------------------------------------------------------------- bounds
MaxInstances == 2
MaxRuns == 2
MaxWrites == 1
MaxRemovals == 2
MaxSessions == 1
MaxRandom == 1

\* ------------------------------------------------- text (str) operations
\* A text is a sequence of one-character strings.
S_rootless == <<"r","o","o","t","l","e","s","s">>
S_runsc == <<"r","u","n","s","c">>
S_runc == <<"r","u","n","c">>
S_runsc_kvm == <<"r","u","n","s","c","-","k","v","m">>
S_opt_rootless == <<"n","a","m","e","=","r","o","o","t","l","e","s","s">>
S_opt_Rootless == <<"n","a","m","e","=","R","o","o","t","l","e","s","s">>
S_opt_seccomp == <<"n","a","m","e","=","s","e","c","c","o","m","p">>
S_devbox == <<"d","e","v","b","o","x">>
S_rootless_ci == <<"r","o","o","t","l","e","s","s","-","c","i">>
S_runsc_lab == <<"r","u","n","s","c","-","l","a","b">>

\* str.lower() on the characters that occur in the engine texts above.
LowerChar(c) == IF c = "R" THEN "r" ELSE c

Lower(s) == [i \in DOMAIN s |-> LowerChar(s[i])]

\* needle in hay (Python substring test)
Contains(hay, needle) ==
    \E i \in 1..(Len(hay) - Len(needle) + 1) :
        SubSeq(hay, i, i + Len(needle) - 1) = needle

\* ------------------------------------------------------ engine info model
\* info: [SecurityOptions: set of texts, Runtimes: set of texts (the keys of
\* the runtimes map), Name: text (the daemon's host name, one of the other
\* fields the engine reports)].
SecurityOptionSets ==
    { {S_opt_seccomp}, {S_opt_seccomp, S_opt_rootless}, {S_opt_seccomp, S_opt_Rootless} }

RuntimeSets == { {S_runc}, {S_runc, S_runsc}, {S_runc, S_runsc_kvm} }

HostNames == { S_devbox, S_rootless_ci, S_runsc_lab }

EngineInfos ==
    [SecurityOptions : SecurityOptionSets, Runtimes : RuntimeSets, Name : HostNames]

\* The lines `docker info` prints for an engine info.
InfoStdout(info) == info.SecurityOptions \cup info.Runtimes \cup {info.Name}

\* any("rootless" in opt.lower() for opt in security_opts)
AdvertisesRootless(info) ==
    \E opt \in info.SecurityOptions : Contains(Lower(opt), S_rootless)

\* "runsc" in info.get("Runtimes", {})
RunscRegistered(info) == S_runsc \in info.Runtimes

\* "x" in stdout_lower, for a needle without line breaks
StdoutLowerContains(info, needle) ==
    \E line \in InfoStdout(info) : Contains(Lower(line), needle)

\* _verify_environment with one broad handler around the image lookup: any
\* failure of images.get is reported as the image not being found.
VerifyEnvironmentBroadCatch(info, infoFails, imageFound, imagesFails) ==
    IF infoFails THEN [exc |-> "SecurityEnvironmentError", what |-> "check failed"]
    ELSE IF ~AdvertisesRootless(info)
        THEN [exc |-> "SecurityEnvironmentError", what |-> "rootless"]
    ELSE IF ~RunscRegistered(info)
        THEN [exc |-> "SecurityEnvironmentError", what |-> "runsc"]
    ELSE IF imagesFails \/ ~imageFound
        THEN [exc |-> "SecurityEnvironmentError", what |-> "image"]
    ELSE [exc |-> "none", what |-> "ok"]

\* Outcome of DockerSandbox._verify_environment (shell variant).
\* infoFails: client.info() raises; imageFound: images.get finds the image;
\* imagesFails: images.get raises something other than ImageNotFound.
VerifyEnvironment(info, infoFails, imageFound, imagesFails) ==
    IF infoFails THEN [exc |-> "SecurityEnvironmentError", what |-> "check failed"]
    ELSE IF ~AdvertisesRootless(info)
        THEN [exc |-> "SecurityEnvironmentError", what |-> "rootless"]
    ELSE IF ~RunscRegistered(info)
        THEN [exc |-> "SecurityEnvironmentError", what |-> "runsc"]
    ELSE IF imagesFails
        THEN [exc |-> "SecurityEnvironmentError", what |-> "check failed"]
    ELSE IF ~imageFound
        THEN [exc |-> "SecurityEnvironmentError", what |-> "image"]
    ELSE [exc |-> "none", what |-> "ok"]

\* Outcome of check_docker_security (cli variant).
\* infoCall: what subprocess.run(["docker", "info"]) did: "ok" (exit 0),
\* "failed" (non-zero exit), "missing" (no docker executable to run: it
\* raises FileNotFoundError).
CheckDockerSecurity(info, infoCall) ==
    IF infoCall = "missing" THEN [exc |-> "FileNotFoundError", what |-> "no docker"]
    ELSE IF infoCall = "failed"
        THEN [exc |-> "SecurityEnvironmentError", what |-> "check failed"]
    ELSE IF ~StdoutLowerContains(info, S_rootless)
        THEN [exc |-> "SecurityEnvironmentError", what |-> "rootless"]
    ELSE IF ~StdoutLowerContains(info, S_runsc)
        THEN [exc |-> "SecurityEnvironmentError", what |-> "runsc"]
    ELSE [exc |-> "none", what |-> "ok"]

\* ------------------------------------------------ file content and bytes
\* A file content (str) is a sequence of code points; a byte string is a
\* sequence of numbers below 256.
Contents == { <<>>, <<233, 10>> }

\* str.encode("utf-8") for code points below 2048
RECURSIVE Utf8Encode(_)
Utf8Encode(text) ==
    IF text = <<>> THEN <<>>
    ELSE LET c == Head(text) IN
         (IF c < 128 THEN <<c>> ELSE <<192 + (c \div 64), 128 + (c % 64)>>)
             \o Utf8Encode(Tail(text))

\* bytes.decode() for well-formed one- and two-byte sequences
RECURSIVE Utf8Decode(_)
Utf8Decode(bytes) ==
    IF bytes = <<>> THEN <<>>
    ELSE IF Head(bytes) < 128 THEN <<Head(bytes)>> \o Utf8Decode(Tail(bytes))
    ELSE <<(Head(bytes) - 192) * 64 + (bytes[2] - 128)>> \o Utf8Decode(Tail(Tail(bytes)))

\* res.output[k].decode() if res.output[k] else ""
DecodeStream(bytes) == IF bytes = <<>> THEN <<>> ELSE Utf8Decode(bytes)

\* str.splitlines() for texts whose only line break is "\n" (code point 10)
RECURSIVE SplitLines(_)
SplitLines(text) ==
    IF text = <<>> THEN <<>>
    ELSE LET breaks == { i \in DOMAIN text : text[i] = 10 } IN
         IF breaks = {} THEN <<text>>
         ELSE LET n == CHOOSE i \in breaks : \A j \in breaks : i <= j
              IN  <<SubSeq(text, 1, n - 1)>> \o SplitLines(SubSeq(text, n + 1, Len(text)))

\* "\n".join(lines)
RECURSIVE JoinLines(_)
JoinLines(lines) ==
    IF lines = <<>> THEN <<>>
    ELSE IF Len(lines) = 1 THEN lines[1]
    ELSE lines[1] \o <<10>> \o JoinLines(Tail(lines))

Min(a, b) == IF a <= b THEN a ELSE b

Max(a, b) == IF a >= b THEN a ELSE b

\* lines[:start_idx] + new_lines + lines[end_line:], for end_line >= 0
SpliceLines(lines, start_idx, end_line, new_lines) ==
    SubSeq(lines, 1, Min(start_idx, Len(lines))) \o new_lines
        \o SubSeq(lines, end_line + 1, Len(lines))

\* python3 -m py_compile accepts the source. Of the texts of the model the
\* ones that hold an opening parenthesis (code point 40) never close it:
\* they are the ones with a syntax error.
Compiles(bytes) == 40 \notin { bytes[i] : i \in DOMAIN bytes }

\* ------------------------------------------------------------------ paths
\* A path is [abs |-> starts with "/", parts |-> its components]; a location
\* is the component sequence of an absolute path of the container. The paths
\* used hold no character the shell treats specially.
WorkDir == <<"app", "workspace">>

Paths ==
    { [abs |-> TRUE, parts |-> <<"app", "workspace", "sub", "a.txt">>],
      [abs |-> FALSE, parts |-> <<"a.txt">>] }

Front(s) == SubSeq(s, 1, Len(s) - 1)

\* os.path.dirname / os.path.basename
Dirname(p) == [abs |-> p.abs, parts |-> Front(p.parts)]

Basename(p) == p.parts[Len(p.parts)]

\* The location a path names for a process whose working directory is cwd.
Resolve(cwd, p) == IF p.abs THEN p.parts ELSE cwd \o p.parts

\* Locations of files and directories the paths can name.
\* The values os.urandom(4) returns, as numbers (the model draws from the
\* first MaxRandom + 1 of the 2^32).
RandomValues == 0..MaxRandom

HexDigit(d) == <<"0","1","2","3","4","5","6","7","8","9","a","b","c","d","e","f">>[d + 1]

\* bytes.hex() of a byte string of n bytes holding the number v
RECURSIVE Hex(_, _)
Hex(v, n) ==
    IF n = 0 THEN ""
    ELSE Hex(v \div 256, n - 1) \o HexDigit((v % 256) \div 16) \o HexDigit(v % 16)

\* f"temp_script_{os.urandom(4).hex()}.py", for the random value r
TempScriptName(r) == "temp_script_" \o Hex(r, 4) \o ".py"

\* The paths the agent's tools are called with: the same file of the
\* workspace, named absolutely and relative to the workspace.
EditPaths ==
    { [abs |-> TRUE, parts |-> <<"app", "workspace", "a.txt">>],
      [abs |-> FALSE, parts |-> <<"a.txt">>] }

\* f"{self.path}.temp_lint"
TempLintPath(p) ==
    [abs |-> p.abs, parts |-> Front(p.parts) \o <<p.parts[Len(p.parts)] \o ".temp_lint">>]

FileLocations ==
    { Resolve(WorkDir, p) : p \in Paths } \cup { Resolve(<<>>, p) : p \in Paths }
        \cup { Resolve(WorkDir, TempLintPath(p)) : p \in EditPaths }
        \cup { Resolve(<<>>, TempLintPath(p)) : p \in EditPaths }
        \cup { WorkDir \o <<TempScriptName(r)>> : r \in RandomValues }

NoFile == <<-1>>

InitialDirs == { <<>>, <<"app">>, WorkDir }

Prefixes(loc) == { SubSeq(loc, 1, n) : n \in 0..Len(loc) }

UnderWorkDir(loc) == Len(loc) >= Len(WorkDir) /\ SubSeq(loc, 1, Len(WorkDir)) = WorkDir

\* ------------------------------------------------------------------ state
VARIABLES
    variant,        \* which sandbox class the program uses
    info,           \* the engine's reported configuration
    imagePresent,   \* the execution image is present in the engine
    volumePresent,  \* the volume agent_uv_cache exists
    containers,     \* engine: container id -> "none" | "created" | "running" | "exited" | "removed"
    fs,             \* session container: file location -> bytes | NoFile
    dirs,           \* session container: existing directories
    phase,          \* "none" | "live" | "garbage": the sandbox object
    instance,       \* number of sandbox objects constructed so far
    container_id,   \* self.container_id (0 is None)
    validated,      \* a security validation succeeded in this instance
    secError,       \* this instance's constructor raised SecurityEnvironmentError
    builds,         \* image builds invoked so far
    ensures,        \* the ensure-image calls made so far, in order
    createLog,      \* options of every container-creation request issued
    runs,           \* run() / run_interactive_shell() calls so far
    writes,         \* files.write calls so far
    stopped,        \* stop() has returned on this instance
    lastWrite,      \* the files.write that just succeeded, until another operation acts
    last,           \* outcome of the latest operation
    lastCalls,      \* container lifecycle calls the latest operation sent to the engine
    removals,       \* removal requests the engine received for the session's container
    lastScript,     \* what the latest run_code did with its temporary script
    artifacts,      \* the artifacts directory of the latest run() of the cli variant
    scriptCalls,    \* the run_code calls of concurrent callers, each at its step
    agent,          \* CodeAgent.run: its position, locals and the LLM history it builds
    lastEdit        \* what the EditFile call that just ran did

vars ==
    << variant, info, imagePresent, volumePresent, containers, fs, dirs, phase,
       instance, container_id, validated, secError, builds, ensures, createLog,
       runs, writes, stopped, lastWrite, last, lastCalls, removals, lastScript,
       artifacts, scriptCalls, agent, lastEdit >>

\* The state that only the step-wise operations of concurrent callers change.
extVars == << scriptCalls, agent, lastEdit >>

Variants == { "sdk", "cli", "shell" }

MaxContainers == MaxInstances + MaxRuns

ContainerIds == 1..MaxContainers

\* No files.write is the latest operation: path, content, whether it
\* succeeded, the file at its destination before it, and what it did.
NoWrite ==
    [ path |-> <<>>, content |-> <<>>, written |-> FALSE, before |-> <<>>,
      mkdirFailed |-> FALSE, putCalled |-> FALSE, putFailed |-> FALSE ]

NoPath == [abs |-> FALSE, parts |-> <<>>]

\* No run_code is the latest operation: whether files.write returned, whether
\* the rm call was made, whether the delete failed, and the streams of the
\* interpreter run.
NoScript ==
    [ written |-> FALSE, deleteAttempted |-> FALSE, deleteFailed |-> FALSE,
      stdout |-> <<>>, stderr |-> "" ]

\* The host side of a run(): the directory tempfile.mkdtemp made (0: none),
\* the artifacts_path of the returned result (0: nothing returned), whether
\* the copy-out filled the directory, and what the start call captured
\* (returncode -1: the container was not started).
RunArtifacts(dir, path, copied, cap) ==
    [ output_dir |-> dir, artifacts_path |-> path, copied |-> copied,
      stdout |-> cap.stdout, stderr |-> cap.stderr, returncode |-> cap.exit_code ]

NotStarted == [stdout |-> <<>>, stderr |-> "", exit_code |-> -1]

\* What `docker start` itself reports when the engine cannot start the container.
StartRefused == [stdout |-> <<>>, stderr |-> "Error response from daemon", exit_code |-> 125]

NoArtifacts == RunArtifacts(0, 0, FALSE, NotStarted)

MaxCallers == 2

Callers == 1..MaxCallers

MaxSteps == 2

MaxToolCalls == 2

\* No LLM response has been requested.
NoResponse == [kind |-> "none", calls |-> <<>>]

\* CodeAgent.run has not been called: pc is its position ("idle", "loop" at
\* the while test, "tools" inside the for loop, "ended"), step and max_steps
\* its counters, response the latest LLM response and consumed whether it
\* was dispatched or shown, calls the tool calls of the assistant message
\* being handled, index the next of them, results the tool results added to
\* the LLM history for that message.
IdleAgent ==
    [ pc |-> "idle", step |-> 0, max_steps |-> 0, response |-> NoResponse,
      consumed |-> TRUE, calls |-> <<>>, index |-> 0, results |-> <<>> ]

\* No EditFile ran as the latest step: its path, the target file before it,
\* the content it built, the exit code of py_compile (-1: not run), whether
\* it made the mv call, whether any of its sandbox calls failed.
NoEdit ==
    [ path |-> NoPath, before |-> NoFile, final |-> <<>>, compileExit |-> -1,
      mvIssued |-> FALSE, failed |-> FALSE ]

\* A caller that is not inside run_code.
\* pc: the next step; name: the random value of its file name; code: the
\* script; ran: the bytes the interpreter was started on; removed: the bytes
\* of the file its rm deleted.
IdleCall == [pc |-> "idle", name |-> 0, code |-> <<>>, ran |-> NoFile, removed |-> NoFile]

\* An operation outcome: the operation and its path argument, the exception
\* that left it ("none" when it returned), the returned streams and exit status;
\* target is the exit status of the target command when it ran (-1 otherwise).
Outcome(op, path, exc, stdout, stderr, exit_code) ==
    [ op |-> op, path |-> path, exc |-> exc, stdout |-> stdout, stderr |-> stderr,
      exit_code |-> exit_code, target |-> -1 ]

\* The outcome, with the exit status the target command had in the container.
WithTarget(outcome, status) == [outcome EXCEPT !.target = status]

Raised(op, exc) == Outcome(op, NoPath, exc, <<>>, "", -1)

Returned(op) == Outcome(op, NoPath, "none", <<>>, "", -1)

EmptyFs == [loc \in FileLocations |-> NoFile]

\* The filesystem a new container of the sdk variant starts with: the bind
\* mounted workspace keeps its files, everything else is fresh.
FreshFs(f) == [loc \in FileLocations |-> IF UnderWorkDir(loc) THEN f[loc] ELSE NoFile]

FreshDirs(d) == InitialDirs \cup { x \in d : UnderWorkDir(x) }

\* The state before any sandbox object is constructed, for a container
\* filesystem f (the workspace is a host directory that outlives sessions).
InitWith(f) ==
    /\ variant \in Variants
    /\ info \in EngineInfos
    /\ variant = "sdk" =>
           info \in { i \in EngineInfos : /\ i.Name = S_devbox
                                           /\ i.Runtimes = {S_runc, S_runsc}
                                           /\ i.SecurityOptions = {S_opt_seccomp} }
    /\ imagePresent \in BOOLEAN
    /\ volumePresent = FALSE
    /\ \E pre \in (IF variant = "sdk" THEN {"none", "running", "exited"} ELSE {"none"}) :
           containers = [c \in ContainerIds |-> IF c = 1 THEN pre ELSE "none"]
    /\ fs = f
    /\ dirs = InitialDirs
    /\ phase = "none"
    /\ instance = 0
    /\ container_id = 0
    /\ validated = FALSE
    /\ secError = FALSE
    /\ builds = 0
    /\ ensures = <<>>
    /\ createLog = <<>>
    /\ runs = 0
    /\ writes = 0
    /\ stopped = FALSE
    /\ lastWrite = NoWrite
    /\ last = Returned("start")
    /\ lastCalls = <<>>
    /\ removals = 0
    /\ lastScript = NoScript
    /\ artifacts = NoArtifacts
    /\ scriptCalls = [c \in Callers |-> IdleCall]
    /\ agent = IdleAgent
    /\ lastEdit = NoEdit

Init == InitWith(EmptyFs)

\* The file the cloned repository holds in the workspace.
RepoFile == <<104, 10>>

RepoFs == [EmptyFs EXCEPT ![<<"app", "workspace", "a.txt">>] = Utf8Encode(RepoFile)]

\* ------------------------------------------- container-creation requests
Mount(host, source, target, mode) ==
    [host |-> host, source |-> source, target |-> target, mode |-> mode]

\* containers.run(...) of the sdk variant
SdkCreateOptions ==
    [ runtime |-> "", capDrop |-> "", securityOpt |-> "", user |-> "", network |-> "",
      memory |-> "", cpus |-> "",
      mounts |-> { Mount(TRUE, "host_repo_path", "/app/workspace", "rw"),
                   Mount(FALSE, "agent_uv_cache", "/uv_cache", "rw"),
                   Mount(TRUE, "/dummy_venv_mount", "/app/workspace/.venv", "rw"),
                   Mount(TRUE, "/dummy_venv_mount_2", "/app/workspace/venv", "rw") } ]

\* create_cmd of the cli variant
CliCreateOptions ==
    [ runtime |-> "runsc", capDrop |-> "", securityOpt |-> "", user |-> "1000:1000",
      network |-> "", memory |-> "", cpus |-> "",
      mounts |-> { Mount(TRUE, "/usr/bin", "/usr/bin", "ro"),
                   Mount(TRUE, "/usr/lib", "/usr/lib", "ro"),
                   Mount(TRUE, "/lib", "/lib", "ro"),
                   Mount(TRUE, "/usr/local/bin", "/usr/local/bin", "ro") } ]

\* cmd of the shell variant
ShellCreateOptions ==
    [ runtime |-> "runsc", capDrop |-> "ALL", securityOpt |-> "no-new-privileges",
      user |-> "1000:1000", network |-> "bridge", memory |-> "", cpus |-> "",
      mounts |-> { Mount(TRUE, "abs_repo_path", "/workspace", "rw") } ]

\* One entry of createLog: the request, the container it is for, who issued
\* it and whether a security validation had succeeded in that instance.
CreateEntry(v, inst, id, wasValidated, hadSecError, opts) ==
    [ variant |-> v, instance |-> inst, id |-> id, validated |-> wasValidated,
      afterSecError |-> hadSecError, options |-> opts ]

\* ------------------------------------------------- commands in a container
Cmd(prog, path, kind) == [prog |-> prog, path |-> path, kind |-> kind]

\* f"mv {temp_path} {self.path}"
MvCmd(from, to) == [prog |-> "mv", path |-> from, kind |-> "", to |-> to]

Proc(stdout, stderr, exit_code, f, d) ==
    [ stdout |-> stdout, stderr |-> stderr, exit_code |-> exit_code, fs |-> f, dirs |-> d,
      target |-> -1 ]

\* What a target script or command can print and return.
ScriptOutcomes ==
    { [stdout |-> <<104, 10>>, stderr |-> "", exit_code |-> 0],
      [stdout |-> <<>>, stderr |-> "", exit_code |-> 1],
      [stdout |-> <<>>, stderr |-> "Traceback", exit_code |-> 1] }

\* /bin/bash -c '<command>' with workdir /app/workspace, inside the container:
\* the raw streams, the exit code and the filesystem it leaves.
ShellCommand(cmd, f, d, out) ==
    LET loc == Resolve(WorkDir, cmd.path) IN
    CASE cmd.prog = "cat" ->
            IF f[loc] # NoFile THEN Proc(f[loc], "", 0, f, d)
            ELSE Proc(<<>>, "cat: No such file or directory", 1, f, d)
      [] cmd.prog = "mkdir" ->
            IF out.exit_code = 0 THEN Proc(<<>>, "", 0, f, d \cup Prefixes(loc))
            ELSE Proc(<<>>, "mkdir: cannot create directory", 1, f, d)
      [] cmd.prog = "rm" ->
            IF f[loc] # NoFile THEN Proc(<<>>, "", 0, [f EXCEPT ![loc] = NoFile], d)
            ELSE Proc(<<>>, "rm: No such file or directory", 1, f, d)
      [] cmd.prog = "python3" ->
            IF f[loc] # NoFile THEN Proc(out.stdout, out.stderr, out.exit_code, f, d)
            ELSE Proc(<<>>, "python3: can't open file", 2, f, d)
      [] cmd.prog = "py_compile" ->
            IF f[loc] # NoFile /\ Compiles(f[loc]) THEN Proc(<<>>, "", 0, f, d)
            ELSE IF f[loc] # NoFile THEN Proc(<<>>, "SyntaxError", 1, f, d)
            ELSE Proc(<<>>, "py_compile: No such file or directory", 1, f, d)
      [] cmd.prog = "mv" ->
            IF f[loc] # NoFile
                THEN Proc(<<>>, "", 0,
                          [f EXCEPT ![Resolve(WorkDir, cmd.to)] = f[loc], ![loc] = NoFile], d)
            ELSE Proc(<<>>, "mv: cannot stat", 1, f, d)
      [] cmd.prog = "invalid" ->
            Proc(<<>>, "bash: command not found", 127, f, d)
      [] OTHER -> Proc(out.stdout, out.stderr, out.exit_code, f, d)

\* Faults the engine can answer one call of an operation with.
\* ("put": put_archive is refused; "put_partial": it fails while the engine
\* extracts the archive, which leaves the file truncated.)
EngineFaults == { "ok", "get", "exec", "cmd", "put", "put_partial" }

\* The location put_archive extracts the file of files.write(p, ...) to.
WriteDest(p) == Resolve(<<>>, Dirname(p)) \o <<Basename(p)>>

\* What an interrupted extraction leaves of a file.
Truncated(bytes) == SubSeq(bytes, 1, Len(bytes) - 1)

\* DockerSandbox._run_in_container: [exc, stdout, stderr, exit_code, fs, dirs]
RunInContainer(cid, conts, f, d, cmd, fault, out) ==
    IF cid = 0
        THEN [exc |-> "RuntimeError"] @@ Proc(<<>>, "", -1, f, d)
    ELSE IF conts[cid] \in {"none", "removed"}
        THEN [exc |-> "NotFound"] @@ Proc(<<>>, "", -1, f, d)
    ELSE IF fault = "get"
        THEN [exc |-> "APIError"] @@ Proc(<<>>, "", -1, f, d)
    ELSE IF fault = "exec" \/ conts[cid] # "running"
        THEN [exc |-> "none"] @@ Proc(<<>>, "Docker exec error", 1, f, d)
    ELSE LET r == ShellCommand(cmd, f, d, out) IN
         [exc |-> "none", target |-> r.exit_code] @@
             Proc(DecodeStream(r.stdout), r.stderr, r.exit_code, r.fs, r.dirs)

\* _DockerFiles.write: [exc, fs, dirs, mkdirFailed, putCalled, putFailed]
FilesWriteResult(cid, conts, f, d, p, content, fault) ==
    LET dir == Dirname(p)
        okOut == [stdout |-> <<>>, stderr |-> "", exit_code |-> 0]
        badOut == [stdout |-> <<>>, stderr |-> "", exit_code |-> 1]
        mk == IF dir.parts # <<>>
                  THEN RunInContainer(cid, conts, f, d, Cmd("mkdir", dir, ""),
                                      IF fault = "exec" THEN "exec" ELSE "ok",
                                      IF fault = "cmd" THEN badOut ELSE okOut)
                  ELSE [exc |-> "none"] @@ Proc(<<>>, "", 0, f, d)
        target == Resolve(<<>>, dir)
        dest == WriteDest(p)
        bytes == Utf8Encode(content)
        stopped_at(exc, f2, d2, mkFailed) ==
            [ exc |-> exc, fs |-> f2, dirs |-> d2, mkdirFailed |-> mkFailed,
              putCalled |-> FALSE, putFailed |-> FALSE ]
        put(exc, f2, failed) ==
            [ exc |-> exc, fs |-> f2, dirs |-> mk.dirs, mkdirFailed |-> FALSE,
              putCalled |-> TRUE, putFailed |-> failed ]
    IN  IF cid = 0 THEN stopped_at("RuntimeError", f, d, FALSE)
        ELSE IF conts[cid] \in {"none", "removed"} THEN stopped_at("NotFound", f, d, FALSE)
        ELSE IF fault = "get" THEN stopped_at("APIError", f, d, FALSE)
        ELSE IF mk.exc # "none" THEN stopped_at(mk.exc, mk.fs, mk.dirs, TRUE)
        ELSE IF mk.exit_code # 0 THEN stopped_at("Exception", mk.fs, mk.dirs, TRUE)
        ELSE IF target \notin mk.dirs \/ fault = "put" THEN put("Exception", mk.fs, TRUE)
        ELSE IF fault = "put_partial"
            THEN put("Exception", [mk.fs EXCEPT ![dest] = Truncated(bytes)], TRUE)
        ELSE put("none", [mk.fs EXCEPT ![dest] = bytes], FALSE)

\* _DockerFiles.read as an outcome; the stderr of a raised outcome is the
\* fixed part of its message.
FilesReadOutcome(cid, conts, f, d, p, fault) ==
    LET proc == RunInContainer(cid, conts, f, d, Cmd("cat", p, ""), fault,
                               [stdout |-> <<>>, stderr |-> "", exit_code |-> 0])
    IN  IF proc.exc # "none" THEN Outcome("read", p, proc.exc, <<>>, "", -1)
        ELSE IF proc.exit_code # 0
            THEN WithTarget(Outcome("read", p, "Exception", <<>>, "Failed to read file", -1),
                            proc.target)
        ELSE WithTarget(Outcome("read", p, "none", proc.stdout, "", -1), proc.target)

Live == phase = "live"

SdkLive == variant = "sdk" /\ Live

\* sandbox.files.read(path)
FilesRead ==
    /\ SdkLive
    /\ \E p \in Paths, fault \in {"ok", "get", "exec"} :
           last' = FilesReadOutcome(container_id, containers, fs, dirs, p, fault)
    /\ lastCalls' = <<>>
    /\ UNCHANGED removals
    /\ UNCHANGED << variant, info, imagePresent, volumePresent, containers, fs, dirs,
                    phase, instance, container_id, validated, secError, builds,
                    ensures, createLog, runs, lastWrite, writes, stopped >>
    /\ lastScript' = NoScript
    /\ UNCHANGED artifacts
    /\ UNCHANGED extVars

\* sandbox.files.write(path, content)
FilesWrite ==
    /\ SdkLive
    /\ writes < MaxWrites
    /\ writes' = writes + 1
    /\ \E p \in Paths, content \in Contents, fault \in EngineFaults :
           LET w == FilesWriteResult(container_id, containers, fs, dirs, p, content, fault)
           IN  /\ fs' = w.fs
               /\ dirs' = w.dirs
               /\ last' = Outcome("write", p, w.exc, <<>>, "", -1)
               /\ lastWrite' = [ path |-> p, content |-> content, written |-> w.exc = "none",
                                  before |-> fs[WriteDest(p)], mkdirFailed |-> w.mkdirFailed,
                                  putCalled |-> w.putCalled, putFailed |-> w.putFailed ]
    /\ lastCalls' = <<>>
    /\ UNCHANGED removals
    /\ UNCHANGED << variant, info, imagePresent, volumePresent, containers, phase,
                    instance, container_id, validated, secError, builds, ensures,
                    createLog, runs , stopped >>
    /\ lastScript' = NoScript
    /\ UNCHANGED artifacts
    /\ UNCHANGED extVars

\* The commands a caller passes to sandbox.commands.run.
CallerCommands ==
    { Cmd("cat", p, "") : p \in Paths } \cup { Cmd("sh", NoPath, ""), Cmd("invalid", NoPath, "") }

\* sandbox.commands.run(command)
CommandsRun ==
    /\ SdkLive
    /\ \E cmd \in CallerCommands, fault \in {"ok", "get", "exec"},
          out \in ScriptOutcomes :
           /\ cmd.prog # "sh" => out.exit_code = 0
           /\ LET r == RunInContainer(container_id, containers, fs, dirs, cmd, fault, out)
              IN  last' = WithTarget(Outcome("run", cmd.path, r.exc, r.stdout, r.stderr,
                                             r.exit_code), r.target)
           /\ lastWrite' = IF cmd.prog = "cat" THEN lastWrite ELSE NoWrite
    /\ lastCalls' = <<>>
    /\ UNCHANGED removals
    /\ UNCHANGED << variant, info, imagePresent, volumePresent, containers, fs, dirs,
                    phase, instance, container_id, validated, secError, builds,
                    ensures, createLog, runs, writes, stopped >>
    /\ lastScript' = NoScript
    /\ UNCHANGED artifacts
    /\ UNCHANGED extVars

\* str(e) of the exceptions an operation can raise
ExcText(exc) ==
    CASE exc = "RuntimeError" -> "Docker sandbox container is not running."
      [] exc = "Exception" -> "Docker error during file write"
      [] OTHER -> exc

\* path = f"/app/workspace/{name}"
TempScriptPath(r) == [abs |-> TRUE, parts |-> WorkDir \o <<TempScriptName(r)>>]

\* name, as the commands of run_code use it
TempScriptRel(r) == [abs |-> FALSE, parts |-> <<TempScriptName(r)>>]

\* The fault the engine answers call k of run_code with (1 files.write,
\* 2 python3, 3 rm), for at = <<step, fault>>.
FaultAt(at, k) == IF at[1] = k THEN at[2] ELSE "ok"

\* DockerSandbox.run_code, its try/except over the results of its three
\* calls (w of files.write, proc of python3, rm of rm): [logs, fs, dirs, script].
\* An exception leaves the try block at the call that raised it: the calls
\* after it are not made.
RunCodeReturn(w, proc, rm) ==
    LET caught(e) == Outcome("run_code", NoPath, "none", <<>>, ExcText(e), -1)
        script(attempted, failed) ==
            [ written |-> w.exc = "none", deleteAttempted |-> attempted,
              deleteFailed |-> failed,
              stdout |-> IF attempted THEN proc.stdout ELSE <<>>,
              stderr |-> IF attempted THEN proc.stderr ELSE "" ]
    IN  IF w.exc # "none"
            THEN [ logs |-> caught(w.exc), fs |-> w.fs, dirs |-> w.dirs,
                   script |-> script(FALSE, FALSE) ]
        ELSE IF proc.exc # "none"
            THEN [ logs |-> caught(proc.exc), fs |-> proc.fs, dirs |-> proc.dirs,
                   script |-> script(FALSE, FALSE) ]
        ELSE IF rm.exc # "none"
            THEN [ logs |-> caught(rm.exc), fs |-> rm.fs, dirs |-> rm.dirs,
                   script |-> script(TRUE, TRUE) ]
        ELSE [ logs |-> Outcome("run_code", NoPath, "none", proc.stdout, proc.stderr, -1),
               fs |-> rm.fs, dirs |-> rm.dirs,
               script |-> script(TRUE, rm.exit_code # 0) ]

ScriptBodies == { <<104, 10>> }

\* <<step, fault>>: the engine faults that can hit a call of run_code
RunCodeFaults ==
    { <<1, f>> : f \in {"ok", "get", "exec", "cmd", "put"} }
        \cup { <<k, f>> : k \in {2, 3}, f \in {"get", "exec"} }

\* sandbox.run_code(code)
RunCode ==
    /\ SdkLive
    /\ \E code \in ScriptBodies, at \in RunCodeFaults, out \in ScriptOutcomes,
          rnd \in RandomValues :
        /\ (at[1] \in {1, 2} /\ at[2] # "ok") => out.exit_code = 0
        /\ \E w \in { FilesWriteResult(container_id, containers, fs, dirs, TempScriptPath(rnd),
                                       code, FaultAt(at, 1)) } :
           \E proc \in { RunInContainer(container_id, containers, w.fs, w.dirs,
                                        Cmd("python3", TempScriptRel(rnd), ""), FaultAt(at, 2), out) } :
           \E rm \in { RunInContainer(container_id, containers, proc.fs, proc.dirs,
                                      Cmd("rm", TempScriptRel(rnd), ""), FaultAt(at, 3), out) } :
               LET r == RunCodeReturn(w, proc, rm)
               IN  /\ fs' = r.fs
                   /\ dirs' = r.dirs
                   /\ last' = r.logs
                   /\ lastScript' = r.script
    /\ lastWrite' = NoWrite
    /\ lastCalls' = <<>>
    /\ UNCHANGED removals
    /\ UNCHANGED << variant, info, imagePresent, volumePresent, containers, phase,
                    instance, container_id, validated, secError, builds, ensures,
                    createLog, runs, writes, stopped >>
    /\ UNCHANGED artifacts
    /\ UNCHANGED extVars

\* The script caller c submits (the callers' scripts differ).
CallerBody(c) == <<103 + c, 10>>

\* What is left alone by a step of a run_code call in progress.
callFrame ==
    << variant, info, imagePresent, volumePresent, containers, phase, instance,
       container_id, validated, secError, builds, ensures, createLog, runs, writes,
       stopped, lastWrite, last, lastCalls, removals, lastScript, artifacts, agent,
       lastEdit >>

\* run_code, entered by caller c: name and path are drawn.
BeginRunCode(c) ==
    /\ SdkLive
    /\ scriptCalls[c].pc = "idle"
    /\ \E rnd \in RandomValues :
           scriptCalls' = [scriptCalls EXCEPT ![c] =
                              [IdleCall EXCEPT !.pc = "write", !.name = rnd,
                                               !.code = CallerBody(c)]]
    /\ UNCHANGED << fs, dirs >>
    /\ UNCHANGED callFrame

\* run_code of caller c: self.files.write(path, code)
WriteScript(c) ==
    /\ SdkLive
    /\ scriptCalls[c].pc = "write"
    /\ \E fault \in {"ok", "get", "put"} :
       \E w \in { FilesWriteResult(container_id, containers, fs, dirs,
                                   TempScriptPath(scriptCalls[c].name),
                                   scriptCalls[c].code, fault) } :
           /\ fs' = w.fs
           /\ dirs' = w.dirs
           /\ scriptCalls' = [scriptCalls EXCEPT ![c].pc =
                                  IF w.exc = "none" THEN "exec" ELSE "done"]
    /\ UNCHANGED callFrame

\* run_code of caller c: self._run_in_container(f"python3 {name}")
ExecScript(c) ==
    /\ SdkLive
    /\ scriptCalls[c].pc = "exec"
    /\ \E fault \in {"ok", "get"} :
       \E proc \in { RunInContainer(container_id, containers, fs, dirs,
                                    Cmd("python3", TempScriptRel(scriptCalls[c].name), ""),
                                    fault, [stdout |-> <<>>, stderr |-> "", exit_code |-> 0]) } :
           scriptCalls' = [scriptCalls EXCEPT
                              ![c].pc = IF proc.exc = "none" THEN "delete" ELSE "done",
                              ![c].ran = IF proc.target = -1 THEN NoFile
                                         ELSE fs[Resolve(WorkDir,
                                                         TempScriptRel(scriptCalls[c].name))]]
    /\ UNCHANGED << fs, dirs >>
    /\ UNCHANGED callFrame

\* run_code of caller c: self._run_in_container(f"rm {name}"), and the return
DeleteScript(c) ==
    /\ SdkLive
    /\ scriptCalls[c].pc = "delete"
    /\ \E fault \in {"ok", "get"} :
       \E rm \in { RunInContainer(container_id, containers, fs, dirs,
                                  Cmd("rm", TempScriptRel(scriptCalls[c].name), ""),
                                  fault, [stdout |-> <<>>, stderr |-> "", exit_code |-> 0]) } :
           /\ fs' = rm.fs
           /\ dirs' = rm.dirs
           /\ scriptCalls' = [scriptCalls EXCEPT
                                  ![c].pc = "done",
                                  ![c].removed =
                                      IF rm.target = -1 THEN NoFile
                                      ELSE fs[Resolve(WorkDir,
                                                      TempScriptRel(scriptCalls[c].name))]]
    /\ UNCHANGED callFrame

StopFaults == { "ok", "get", "stop", "remove" }

\* DockerSandbox.stop: [exc, containers, container_id, calls]
StopResult(cid, conts, fault) ==
    IF cid = 0
        THEN [exc |-> "none", containers |-> conts, container_id |-> cid, calls |-> <<>>]
    ELSE IF conts[cid] \in {"none", "removed"}
        THEN [exc |-> "none", containers |-> conts, container_id |-> 0, calls |-> <<"get">>]
    ELSE IF fault = "get"
        THEN [exc |-> "APIError", containers |-> conts, container_id |-> cid, calls |-> <<"get">>]
    ELSE IF fault = "stop"
        THEN [ exc |-> "APIError", containers |-> conts, container_id |-> cid,
               calls |-> <<"get", "stop">> ]
    ELSE IF fault = "remove"
        THEN [ exc |-> "APIError", containers |-> [conts EXCEPT ![cid] = "exited"],
               container_id |-> cid, calls |-> <<"get", "stop", "remove">> ]
    ELSE [ exc |-> "none", containers |-> [conts EXCEPT ![cid] = "removed"],
           container_id |-> 0, calls |-> <<"get", "stop", "remove">> ]

\* The elements of a sequence.
Range(seq) == { seq[i] : i \in DOMAIN seq }

\* removals after an operation that sent the calls to the engine
Removed(rem, calls) == IF "remove" \in Range(calls) THEN rem + 1 ELSE rem

\* sandbox.stop()
Stop ==
    /\ SdkLive
    /\ \E fault \in StopFaults :
           LET r == StopResult(container_id, containers, fault)
           IN  /\ containers' = r.containers
               /\ container_id' = r.container_id
               /\ last' = Raised("stop", r.exc)
               /\ stopped' = (stopped \/ r.exc = "none")
               /\ lastCalls' = r.calls
               /\ "remove" \in Range(r.calls) => removals < MaxRemovals
               /\ removals' = Removed(removals, r.calls)
    /\ lastWrite' = NoWrite
    /\ UNCHANGED << variant, info, imagePresent, volumePresent, fs, dirs, phase,
                    instance, validated, secError, builds, ensures, createLog, runs, writes >>
    /\ lastScript' = NoScript
    /\ UNCHANGED artifacts
    /\ UNCHANGED extVars

\* The caller drops its last reference to the sandbox object.
Discard ==
    /\ Live
    /\ phase' = IF variant = "sdk" THEN "garbage" ELSE "none"
    /\ lastWrite' = NoWrite
    /\ last' = Returned("discard")
    /\ lastCalls' = <<>>
    /\ UNCHANGED removals
    /\ UNCHANGED << variant, info, imagePresent, volumePresent, containers, fs, dirs,
                    instance, container_id, validated, secError, builds, ensures,
                    createLog, runs, writes, stopped >>
    /\ lastScript' = NoScript
    /\ UNCHANGED artifacts
    /\ UNCHANGED extVars

\* DockerSandbox.__del__: the interpreter finalizes the object and drops
\* whatever stop() raises.
Finalize ==
    /\ variant = "sdk"
    /\ phase = "garbage"
    /\ \E fault \in StopFaults :
           LET r == StopResult(container_id, containers, fault)
           IN  /\ containers' = r.containers
               /\ container_id' = r.container_id
               /\ last' = Outcome("__del__", NoPath, "none", <<>>, ExcText(r.exc), -1)
               /\ lastCalls' = r.calls
               /\ "remove" \in Range(r.calls) => removals < MaxRemovals
               /\ removals' = Removed(removals, r.calls)
    /\ phase' = "none"
    /\ UNCHANGED << variant, info, imagePresent, volumePresent, fs, dirs, instance,
                    validated, secError, builds, ensures, createLog, runs, lastWrite, writes, stopped >>
    /\ lastScript' = NoScript
    /\ UNCHANGED artifacts
    /\ UNCHANGED extVars

\* The engine loses the session's container (removed or the daemon reset)
\* or the container's main process ends, outside the program.
EngineEvent ==
    /\ variant = "sdk"
    /\ container_id # 0
    /\ containers[container_id] \in {"created", "running", "exited"}
    /\ \E to \in {"removed", "exited"} :
           /\ to # containers[container_id]
           /\ containers' = [containers EXCEPT ![container_id] = to]
    /\ lastWrite' = NoWrite
    /\ UNCHANGED << variant, info, imagePresent, volumePresent, fs, dirs, phase,
                    instance, container_id, validated, secError, builds, ensures,
                    createLog, runs, last, writes, stopped, lastCalls, removals >>
    /\ UNCHANGED lastScript
    /\ UNCHANGED artifacts
    /\ UNCHANGED extVars

\* One kept ensure-image call: the image was present before it, its presence
\* check returned, it invoked a build, the image is present after it.
EnsureEntry(before, looked, built, after) ==
    [before |-> before, looked |-> looked, built |-> built, after |-> after]

InitFaults ==
    { "ok", "clone", "images", "build", "volume", "get", "start", "create", "run_start", "deps" }

\* DockerSandbox._ensure_image_and_container, image part:
\* images.get, and images.build when it raises ImageNotFound.
\* [exc, imagePresent, built]
SdkEnsureImage(present, fault) ==
    IF fault = "images" THEN [exc |-> "APIError", imagePresent |-> present, built |-> FALSE]
    ELSE IF present THEN [exc |-> "none", imagePresent |-> TRUE, built |-> FALSE]
    ELSE IF fault = "build" THEN [exc |-> "BuildError", imagePresent |-> FALSE, built |-> TRUE]
    ELSE [exc |-> "none", imagePresent |-> TRUE, built |-> TRUE]

\* The container part without the status test: a container that is found is
\* started whatever its status.
SdkEnsureContainerAlwaysStart(id, conts, fault) ==
    IF fault = "get"
        THEN [ exc |-> "APIError", containers |-> conts, container_id |-> 0,
               requested |-> FALSE, calls |-> <<"get">> ]
    ELSE IF conts[id] \in {"created", "running", "exited"}
        THEN IF fault = "start"
                 THEN [ exc |-> "APIError", containers |-> conts, container_id |-> 0,
                        requested |-> FALSE, calls |-> <<"get", "start">> ]
                 ELSE [ exc |-> "none", containers |-> [conts EXCEPT ![id] = "running"],
                        container_id |-> id, requested |-> FALSE,
                        calls |-> <<"get", "start">> ]
    ELSE IF fault = "create"
        THEN [ exc |-> "APIError", containers |-> conts, container_id |-> 0,
               requested |-> TRUE, calls |-> <<"get", "run">> ]
    ELSE IF fault = "run_start"
        THEN [ exc |-> "APIError", containers |-> [conts EXCEPT ![id] = "created"],
               container_id |-> 0, requested |-> TRUE, calls |-> <<"get", "run">> ]
    ELSE [ exc |-> "none", containers |-> [conts EXCEPT ![id] = "running"],
           container_id |-> id, requested |-> TRUE, calls |-> <<"get", "run">> ]

\* DockerSandbox._ensure_image_and_container, container part: reuse the
\* container named like the session or run a new one.
\* [exc, containers, container_id, requested, calls]
SdkEnsureContainer(id, conts, fault) ==
    IF fault = "get"
        THEN [ exc |-> "APIError", containers |-> conts, container_id |-> 0,
               requested |-> FALSE, calls |-> <<"get">> ]
    ELSE IF conts[id] \in {"created", "running", "exited"}
        THEN IF conts[id] # "running" /\ fault = "start"
                 THEN [ exc |-> "APIError", containers |-> conts, container_id |-> 0,
                        requested |-> FALSE, calls |-> <<"get", "start">> ]
                 ELSE [ exc |-> "none", containers |-> [conts EXCEPT ![id] = "running"],
                        container_id |-> id, requested |-> FALSE,
                        calls |-> IF conts[id] # "running" THEN <<"get", "start">>
                                  ELSE <<"get">> ]
    ELSE IF fault = "create"
        THEN [ exc |-> "APIError", containers |-> conts, container_id |-> 0,
               requested |-> TRUE, calls |-> <<"get", "run">> ]
    ELSE IF fault = "run_start"
        THEN [ exc |-> "APIError", containers |-> [conts EXCEPT ![id] = "created"],
               container_id |-> 0, requested |-> TRUE, calls |-> <<"get", "run">> ]
    ELSE [ exc |-> "none", containers |-> [conts EXCEPT ![id] = "running"],
           container_id |-> id, requested |-> TRUE, calls |-> <<"get", "run">> ]

\* DockerSandbox.__init__ of the sdk variant
SdkConstruct ==
    /\ variant = "sdk"
    /\ phase = "none"
    /\ instance < MaxInstances
    /\ \E repo \in BOOLEAN, fault \in InitFaults :
        LET id == instance + 1
            cloneFails == repo /\ fault = "clone"
            img == SdkEnsureImage(imagePresent, fault)
            volFails == img.exc = "none" /\ fault = "volume" /\ ~volumePresent
            con == SdkEnsureContainer(id, containers, fault)
            reached == ~cloneFails /\ img.exc = "none" /\ ~volFails
            depsFails == reached /\ con.exc = "none" /\ repo /\ fault = "deps"
            exc == IF cloneFails THEN "Exception"
                   ELSE IF img.exc # "none" THEN img.exc
                   ELSE IF volFails THEN "APIError"
                   ELSE IF con.exc # "none" THEN con.exc
                   ELSE IF depsFails THEN "APIError"
                   ELSE "none"
            step == IF cloneFails THEN "clone"
                    ELSE IF img.exc # "none" THEN "image"
                    ELSE IF volFails THEN "volume"
                    ELSE IF con.exc # "none" THEN "container"
                    ELSE IF depsFails THEN "deps"
                    ELSE ""
        IN  /\ imagePresent' = IF cloneFails THEN imagePresent ELSE img.imagePresent
            /\ builds' = IF ~cloneFails /\ img.built THEN builds + 1 ELSE builds
            /\ ensures' = IF cloneFails THEN ensures
                          ELSE Append(ensures, EnsureEntry(imagePresent, fault # "images",
                                                           img.built, img.imagePresent))
            /\ volumePresent' = IF ~cloneFails /\ img.exc = "none" /\ ~volFails
                                    THEN TRUE ELSE volumePresent
            /\ containers' = IF reached THEN con.containers ELSE containers
            /\ container_id' = IF reached THEN con.container_id ELSE 0
            /\ createLog' = IF reached /\ con.requested
                                THEN Append(createLog,
                                            CreateEntry("sdk", id, id, FALSE, FALSE, SdkCreateOptions))
                                ELSE createLog
            /\ fs' = IF reached /\ con.requested /\ con.containers[id] # "none"
                         THEN FreshFs(fs) ELSE fs
            /\ dirs' = IF reached /\ con.requested /\ con.containers[id] # "none"
                           THEN FreshDirs(dirs) ELSE dirs
            /\ phase' = IF exc = "none" THEN "live" ELSE "garbage"
            /\ last' = [Raised("__init__", exc) EXCEPT !.stderr = step]
            /\ lastCalls' = IF reached THEN con.calls ELSE <<>>
    /\ instance' = instance + 1
    /\ stopped' = FALSE
    /\ validated' = FALSE
    /\ secError' = FALSE
    /\ lastWrite' = NoWrite
    /\ removals' = 0
    /\ UNCHANGED << variant, info, runs, writes >>
    /\ lastScript' = NoScript
    /\ UNCHANGED artifacts
    /\ UNCHANGED extVars

\* build_sandbox_image without its presence test: it builds on every call.
BuildSandboxImageAlways(present, fault) ==
    IF fault = "images"
        THEN [exc |-> "SecurityEnvironmentError", imagePresent |-> present, built |-> FALSE]
    ELSE IF fault = "build"
        THEN [exc |-> "SecurityEnvironmentError", imagePresent |-> present, built |-> TRUE]
    ELSE [exc |-> "none", imagePresent |-> TRUE, built |-> TRUE]

\* build_sandbox_image of the cli variant: [exc, imagePresent, built]
BuildSandboxImage(present, fault) ==
    IF fault = "images"
        THEN [exc |-> "SecurityEnvironmentError", imagePresent |-> present, built |-> FALSE]
    ELSE IF present THEN [exc |-> "none", imagePresent |-> TRUE, built |-> FALSE]
    ELSE IF fault = "build"
        THEN [exc |-> "SecurityEnvironmentError", imagePresent |-> FALSE, built |-> TRUE]
    ELSE [exc |-> "none", imagePresent |-> TRUE, built |-> TRUE]

\* DockerSandbox.__init__ of the cli variant
CliConstruct ==
    /\ variant = "cli"
    /\ phase = "none"
    /\ instance < MaxInstances
    /\ \E fault \in {"ok", "info", "spawn", "images", "build"} :
        LET sec == CheckDockerSecurity(info, CASE fault = "info" -> "failed"
                                               [] fault = "spawn" -> "missing"
                                               [] OTHER -> "ok")
            img == BuildSandboxImage(imagePresent, fault)
            exc == IF sec.exc # "none" THEN sec.exc ELSE img.exc
            what == IF sec.exc # "none" THEN sec.what
                    ELSE IF img.exc # "none" THEN "image"
                    ELSE "ok"
        IN  /\ imagePresent' = IF sec.exc = "none" THEN img.imagePresent ELSE imagePresent
            /\ builds' = IF sec.exc = "none" /\ img.built THEN builds + 1 ELSE builds
            /\ ensures' = IF sec.exc = "none"
                              THEN Append(ensures,
                                          EnsureEntry(imagePresent, fault # "images",
                                                      img.built, img.imagePresent))
                              ELSE ensures
            /\ validated' = (exc = "none")
            /\ secError' = (exc = "SecurityEnvironmentError")
            /\ phase' = IF exc = "none" THEN "live" ELSE "none"
            /\ last' = [Raised("__init__", exc) EXCEPT !.stderr = what]
    /\ instance' = instance + 1
    /\ stopped' = FALSE
    /\ lastCalls' = <<>>
    /\ UNCHANGED removals
    /\ UNCHANGED << variant, info, volumePresent, containers, fs, dirs, container_id,
                    createLog, runs, lastWrite, writes >>
    /\ lastScript' = NoScript
    /\ UNCHANGED artifacts
    /\ UNCHANGED extVars

\* DockerSandbox.__init__ of the shell variant
ShellConstruct ==
    /\ variant = "shell"
    /\ phase = "none"
    /\ instance < MaxInstances
    /\ \E fault \in {"ok", "info", "images"} :
        LET sec == VerifyEnvironment(info, fault = "info", imagePresent, fault = "images")
        IN  /\ validated' = (sec.exc = "none")
            /\ secError' = (sec.exc = "SecurityEnvironmentError")
            /\ phase' = IF sec.exc = "none" THEN "live" ELSE "none"
            /\ last' = [Raised("__init__", sec.exc) EXCEPT !.stderr = sec.what]
    /\ instance' = instance + 1
    /\ stopped' = FALSE
    /\ lastCalls' = <<>>
    /\ UNCHANGED removals
    /\ UNCHANGED << variant, info, imagePresent, volumePresent, containers, fs, dirs,
                    container_id, builds, ensures, createLog, runs, lastWrite, writes >>
    /\ lastScript' = NoScript
    /\ UNCHANGED artifacts
    /\ UNCHANGED extVars

\* What the command of a cli or shell run does in the container.
TargetOutcomes ==
    ScriptOutcomes \cup { [stdout |-> <<>>, stderr |-> "bash: command not found", exit_code |-> 127] }

\* run() with the removal placed after the copy-in check instead of in a
\* finally block: a failed copy-in leaves the container behind.
CliRunResultNoFinally(fault, rmFails, out, dir) ==
    LET after(status) == IF rmFails THEN status ELSE "removed"
        raise(status, t, issued, copied, cap) ==
            [ outcome |-> WithTarget(Raised("run", "ContainerRuntimeError"), t),
              container |-> status, calls |-> issued,
              artifacts |-> RunArtifacts(dir, 0, copied, cap) ]
        all == <<"create", "cp_in", "start", "cp_out", "remove">>
    IN  IF fault = "create" THEN raise("none", -1, <<"create">>, FALSE, NotStarted)
        ELSE IF fault = "cp_in"
            THEN raise("created", -1, <<"create", "cp_in">>, FALSE, NotStarted)
        ELSE IF fault = "start" THEN raise(after("created"), -1, all, FALSE, StartRefused)
        ELSE IF out.exit_code # 0
            THEN raise(after("exited"), out.exit_code, all, fault # "cp_out", out)
        ELSE [ outcome |-> WithTarget(Outcome("run", NoPath, "none", out.stdout, out.stderr,
                                              out.exit_code), out.exit_code),
               container |-> after("exited"), calls |-> all,
               artifacts |-> RunArtifacts(dir, dir, fault # "cp_out", out) ]

\* run() without the check of the exit code: every finished command is
\* returned as a result.
CliRunResultAnyExit(fault, rmFails, out, dir) ==
    LET after(status) == IF rmFails THEN status ELSE "removed"
        raise(status, t, issued, copied, cap) ==
            [ outcome |-> WithTarget(Raised("run", "ContainerRuntimeError"), t),
              container |-> status, calls |-> issued,
              artifacts |-> RunArtifacts(dir, 0, copied, cap) ]
        all == <<"create", "cp_in", "start", "cp_out", "remove">>
    IN  IF fault = "create" THEN raise("none", -1, <<"create">>, FALSE, NotStarted)
        ELSE IF fault = "cp_in"
            THEN raise(after("created"), -1, <<"create", "cp_in", "remove">>, FALSE, NotStarted)
        ELSE IF fault = "start" THEN raise(after("created"), -1, all, FALSE, StartRefused)
        ELSE [ outcome |-> WithTarget(Outcome("run", NoPath, "none", out.stdout, out.stderr,
                                              out.exit_code), out.exit_code),
               container |-> after("exited"), calls |-> all,
               artifacts |-> RunArtifacts(dir, dir, fault # "cp_out", out) ]

\* DockerSandbox.run of the cli variant: create, copy in, start, copy out,
\* remove, for the directory dir that tempfile.mkdtemp made.
\* [outcome, status of the container afterwards, calls, artifacts]
CliRunResult(fault, rmFails, out, dir) ==
    LET after(status) == IF rmFails THEN status ELSE "removed"
        raise(status, t, issued, copied, cap) ==
            [ outcome |-> WithTarget(Raised("run", "ContainerRuntimeError"), t),
              container |-> status, calls |-> issued,
              artifacts |-> RunArtifacts(dir, 0, copied, cap) ]
        all == <<"create", "cp_in", "start", "cp_out", "remove">>
    IN  IF fault = "create" THEN raise("none", -1, <<"create">>, FALSE, NotStarted)
        ELSE IF fault = "cp_in"
            THEN raise(after("created"), -1, <<"create", "cp_in", "remove">>, FALSE, NotStarted)
        ELSE IF fault = "start" THEN raise(after("created"), -1, all, FALSE, StartRefused)
        ELSE IF out.exit_code # 0
            THEN raise(after("exited"), out.exit_code, all, fault # "cp_out", out)
        ELSE [ outcome |-> WithTarget(Outcome("run", NoPath, "none", out.stdout, out.stderr,
                                              out.exit_code), out.exit_code),
               container |-> after("exited"), calls |-> all,
               artifacts |-> RunArtifacts(dir, dir, fault # "cp_out", out) ]

\* sandbox.run(code_repo_path, command) of the cli variant
CliRun ==
    /\ variant = "cli"
    /\ Live
    /\ runs < MaxRuns
    /\ \E fault \in {"ok", "create", "cp_in", "start", "cp_out"}, rmFails \in BOOLEAN,
          out \in TargetOutcomes :
        LET id == MaxInstances + runs + 1
            r == CliRunResult(fault, rmFails, out, runs + 1)
        IN  /\ containers' = [containers EXCEPT ![id] = r.container]
            /\ last' = r.outcome
            /\ lastCalls' = r.calls
            /\ removals' = Removed(0, r.calls)
            /\ artifacts' = r.artifacts
    /\ createLog' = Append(createLog,
                           CreateEntry("cli", instance, MaxInstances + runs + 1, validated,
                                       secError, CliCreateOptions))
    /\ runs' = runs + 1
    /\ UNCHANGED << variant, info, imagePresent, volumePresent, fs, dirs, phase, instance,
                    container_id, validated, secError, builds, ensures, lastWrite, writes, stopped >>
    /\ lastScript' = NoScript
    /\ UNCHANGED extVars

\* sandbox.run_interactive_shell(repo_path) of the shell variant:
\* `docker run -it --rm ...` with check=True
RunInteractiveShell ==
    /\ variant = "shell"
    /\ Live
    /\ runs < MaxRuns
    /\ \E status \in {0, 1, 125} :
        LET id == MaxInstances + runs + 1 IN
        /\ containers' = [containers EXCEPT ![id] = IF status = 125 THEN "none" ELSE "removed"]
        /\ last' = IF status = 0 THEN WithTarget(Returned("shell"), 0)
                   ELSE WithTarget(Raised("shell", "ContainerRuntimeError"), status)
        /\ removals' = IF status = 125 THEN 0 ELSE 1
    /\ lastCalls' = <<"run">>
    /\ createLog' = Append(createLog,
                           CreateEntry("shell", instance, MaxInstances + runs + 1, validated,
                                       secError, ShellCreateOptions))
    /\ runs' = runs + 1
    /\ UNCHANGED << variant, info, imagePresent, volumePresent, fs, dirs, phase, instance,
                    container_id, validated, secError, builds, ensures, lastWrite, writes, stopped >>
    /\ lastScript' = NoScript
    /\ UNCHANGED artifacts
    /\ UNCHANGED extVars

\* ------------------------------------------------- the code agent's tools
\* The new_content of an edit: "x\n" and "(\n"
NewContents == { <<120, 10>>, <<40, 10>> }

NoArgs ==
    [ path |-> NoPath, start_line |-> 0, end_line |-> 0, new_content |-> <<>>,
      given |-> {} ]

\* The arguments of the EditFile calls the LLM asks for: replacements of
\* line 1, and one that starts beyond the end of the file.
EditArgs ==
    { [ path |-> p, start_line |-> 1, end_line |-> 1, new_content |-> c,
        given |-> {"path", "start_line", "end_line", "new_content"} ] :
          p \in EditPaths, c \in NewContents }
        \cup { [ path |-> p, start_line |-> 3, end_line |-> 3, new_content |-> <<120, 10>>,
                 given |-> {"path", "start_line", "end_line", "new_content"} ] :
                   p \in { q \in EditPaths : q.abs } }

\* A tool call of an assistant message: the function name, the form of its
\* arguments string ("object", "array": JSON of that kind; "malformed": not
\* JSON) and the fields the string holds.
ToolRequest(name, json, args) == [name |-> name, json |-> json, args |-> args]

ToolRequests ==
    { ToolRequest("EditFile", "object", e) : e \in EditArgs }
        \cup { ToolRequest("RunShell", "object", [NoArgs EXCEPT !.given = {"command"}]),
               ToolRequest("RunShell", "object", NoArgs),
               ToolRequest("RunShell", "malformed", NoArgs),
               ToolRequest("DeleteFile", "object", [NoArgs EXCEPT !.given = {"path"}]) }

\* The calls that stand before the last one of a message with several calls.
LeadRequests ==
    { r \in ToolRequests :
        \/ r.json = "malformed"
        \/ r.name = "EditFile" /\ r.args.path.abs /\ r.args.start_line = 1
                /\ Compiles(r.args.new_content) }

\* message.tool_calls: up to MaxToolCalls calls, each with its id
ToolCallLists ==
    UNION { { [i \in 1..n |-> [id |-> i] @@ l[i]] :
                l \in { m \in [1..n -> ToolRequests] :
                          \A i \in 1..(n - 1) : m[i] \in LeadRequests } } :
            n \in 1..MaxToolCalls }

\* What client.chat returns: a text message or a message with tool calls.
LLMResponses ==
    { [kind |-> "text", calls |-> <<>>] }
        \cup { [kind |-> "tools", calls |-> l] : l \in ToolCallLists }

\* CodeAgentTools.registry
Registry == { "ReadFile", "EditFile", "RunShell", "SearchCode", "ListDir" }

\* The fields a tool class requires (those without a default).
RequiredFields(name) ==
    CASE name = "EditFile" -> {"path", "start_line", "end_line", "new_content"}
      [] name = "ReadFile" -> {"path"}
      [] name = "RunShell" -> {"command"}
      [] name = "SearchCode" -> {"query"}
      [] OTHER -> {}

\* json.loads(args_str) and CodeAgentTools.execute up to tool.run: where a
\* tool call ends ("json": the arguments do not parse; "unknown": no such
\* tool; "arguments": the tool class rejects them), or the tool that runs.
Dispatch(call) ==
    IF call.json = "malformed" THEN "json"
    ELSE IF call.name \notin Registry THEN "unknown"
    ELSE IF call.json # "object" \/ ~(RequiredFields(call.name) \subseteq call.args.given)
        THEN "arguments"
    ELSE call.name

\* The result text of a tool call: its kind ("success", "output", "rejected",
\* "error") and, for an error, where it came from.
ToolOutput(kind, cause) == [kind |-> kind, cause |-> cause]

\* The for-loop body without the result of a failed call: only results of
\* calls that went through are added to the history.
HandleToolCallDropsErrors(results, call, output) ==
    IF output.kind = "error" THEN results
    ELSE Append(results, [id |-> call.id, kind |-> output.kind, cause |-> output.cause])

\* The end of the for-loop body of CodeAgent.run:
\* self.client.add_tool_result(tool_call_id=tool_call.id, output=result)
HandleToolCall(results, call, output) ==
    Append(results, [id |-> call.id, kind |-> output.kind, cause |-> output.cause])

\* The agent after the tool call at its index gave the output.
AfterToolCall(ag, output) ==
    [ag EXCEPT !.results = HandleToolCall(ag.results, ag.calls[ag.index], output),
               !.index = ag.index + 1]

\* What is left alone by a step of CodeAgent.run that does not touch the
\* container's files.
agentFrame ==
    << variant, info, imagePresent, volumePresent, containers, phase, instance,
       container_id, validated, secError, builds, ensures, createLog, runs, writes,
       stopped, lastWrite, last, lastCalls, removals, lastScript, artifacts,
       scriptCalls >>

\* A tool call is being handled.
AtToolCall == SdkLive /\ agent.pc = "tools" /\ agent.index <= Len(agent.calls)


\* ------------------------------------------------------ EditFile.run
\* start_idx = max(0, self.start_line - 1)
StartIdx(args) == Max(0, args.start_line - 1)

\* if start_idx > len(lines)
BeyondEnd(args, content) == StartIdx(args) > Len(SplitLines(content))

\* final_content = "\n".join(lines[:start_idx] + new_content.splitlines()
\*                           + lines[end_line:])
EditedContent(args, content) ==
    JoinLines(SpliceLines(SplitLines(content), StartIdx(args), args.end_line,
                          SplitLines(args.new_content)))

\* The stream of a command whose result only its exit code is.
OkOut == [stdout |-> <<>>, stderr |-> "", exit_code |-> 0]

\* The faults the engine answers the sandbox calls of one EditFile.run with
\* (call 1 files.read, 2 files.write, 3 py_compile, 4 rm or mv).
EditFaults ==
    { <<1, "ok">> } \cup { <<k, f>> : k \in {1, 3, 4}, f \in {"get", "exec"} }
        \cup { <<2, f>> : f \in {"get", "put"} }

\* The record of an EditFile.run.
EditRecord(args, before, final, compileExit, mvIssued, failed) ==
    [ path |-> args.path, before |-> before, final |-> final,
      compileExit |-> compileExit, mvIssued |-> mvIssued, failed |-> failed ]

\* EditFile.run over the results of its sandbox calls (rd of files.read, w
\* of files.write of the temporary file, chk of py_compile, fin of the rm
\* or mv that follows): [output, fs, dirs, edit]. An exception leaves the
\* try block at the call that raised it; the method returns str(e).
EditFileReturn(args, f, d, rd, final, w, chk, fin) ==
    LET before == f[Resolve(WorkDir, args.path)]
        ret(kind, cause, f2, d2, exit, mv, failed) ==
            [ output |-> ToolOutput(kind, cause), fs |-> f2, dirs |-> d2,
              edit |-> EditRecord(args, before, final, exit, mv, failed) ]
    IN  IF rd.exc # "none" THEN ret("error", "exception", f, d, -1, FALSE, TRUE)
        ELSE IF BeyondEnd(args, rd.stdout) THEN ret("error", "range", f, d, -1, FALSE, FALSE)
        ELSE IF w.exc # "none" THEN ret("error", "exception", w.fs, w.dirs, -1, FALSE, TRUE)
        ELSE IF chk.exc # "none"
            THEN ret("error", "exception", chk.fs, chk.dirs, -1, FALSE, TRUE)
        ELSE IF chk.exit_code # 0
            THEN IF fin.exc # "none"
                     THEN ret("error", "exception", fin.fs, fin.dirs, chk.exit_code, FALSE, TRUE)
                     ELSE ret("rejected", "syntax", fin.fs, fin.dirs, chk.exit_code, FALSE,
                              fin.exit_code # 0)
        ELSE IF fin.exc # "none"
            THEN ret("error", "exception", fin.fs, fin.dirs, 0, TRUE, TRUE)
        ELSE ret("success", "", fin.fs, fin.dirs, 0, TRUE, fin.exit_code # 0)

\* --------------------------------------------------------- CodeAgent.run
\* run is called: the first chat request (a chat that raises ends the run).
AgentStart ==
    /\ SdkLive
    /\ agent.pc = "idle"
    /\ \E n \in 1..MaxSteps, resp \in LLMResponses \cup {NoResponse} :
           agent' = [agent EXCEPT !.pc = IF resp = NoResponse THEN "ended" ELSE "loop",
                                  !.step = 0,
                                  !.max_steps = n,
                                  !.response = resp,
                                  !.consumed = resp = NoResponse]
    /\ lastEdit' = NoEdit
    /\ UNCHANGED << fs, dirs >>
    /\ UNCHANGED agentFrame

\* The while test and the inspection of the response: the message's tool
\* calls are taken up, or its content is yielded and the loop left.
AgentStep ==
    /\ SdkLive
    /\ agent.pc = "loop"
    /\ agent' = IF agent.step >= agent.max_steps
                    THEN [agent EXCEPT !.pc = "ended"]
                ELSE IF agent.response.kind = "tools"
                    THEN [agent EXCEPT !.pc = "tools",
                                       !.step = agent.step + 1,
                                       !.consumed = TRUE,
                                       !.calls = agent.response.calls,
                                       !.index = 1,
                                       !.results = <<>>]
                ELSE [agent EXCEPT !.pc = "ended",
                                   !.step = agent.step + 1,
                                   !.consumed = TRUE]
    /\ lastEdit' = NoEdit
    /\ UNCHANGED << fs, dirs >>
    /\ UNCHANGED agentFrame

\* The for-loop body for a call that does not reach a tool: json.loads
\* raises, the registry has no such tool, or the tool class rejects the
\* arguments.
ToolCallRejected ==
    /\ AtToolCall
    /\ Dispatch(agent.calls[agent.index]) \in {"json", "unknown", "arguments"}
    /\ agent' = AfterToolCall(agent, ToolOutput("error", Dispatch(agent.calls[agent.index])))
    /\ lastEdit' = NoEdit
    /\ UNCHANGED << fs, dirs >>
    /\ UNCHANGED agentFrame

\* The for-loop body for a RunShell call: the command runs in the
\* container; an exception of the sandbox is caught by execute.
ToolCallRunShell ==
    /\ AtToolCall
    /\ Dispatch(agent.calls[agent.index]) = "RunShell"
    /\ \E fault \in {"ok", "get", "exec"}, out \in ScriptOutcomes :
         \E r \in { RunInContainer(container_id, containers, fs, dirs,
                                   Cmd("sh", NoPath, ""), fault, out) } :
           /\ agent' = AfterToolCall(agent,
                           IF r.exc # "none" THEN ToolOutput("error", "exception")
                           ELSE ToolOutput("output", ""))
           /\ fs' = r.fs
           /\ dirs' = r.dirs
    /\ lastEdit' = NoEdit
    /\ UNCHANGED agentFrame

\* The for-loop body for an EditFile call.
ToolCallEditFile ==
    /\ AtToolCall
    /\ Dispatch(agent.calls[agent.index]) = "EditFile"
    /\ \E at \in EditFaults, args \in { agent.calls[agent.index].args } :
         \E rd \in { FilesReadOutcome(container_id, containers, fs, dirs, args.path,
                                      FaultAt(at, 1)) } :
         \E final \in { EditedContent(args, rd.stdout) } :
         \E w \in { FilesWriteResult(container_id, containers, fs, dirs,
                                     TempLintPath(args.path), final, FaultAt(at, 2)) } :
         \E chk \in { RunInContainer(container_id, containers, w.fs, w.dirs,
                                     Cmd("py_compile", TempLintPath(args.path), ""),
                                     FaultAt(at, 3), OkOut) } :
         \E fin \in { RunInContainer(container_id, containers, chk.fs, chk.dirs,
                                     IF chk.exit_code # 0
                                         THEN Cmd("rm", TempLintPath(args.path), "")
                                         ELSE MvCmd(TempLintPath(args.path), args.path),
                                     FaultAt(at, 4), OkOut) } :
         \E r \in { EditFileReturn(args, fs, dirs, rd, final, w, chk, fin) } :
           /\ agent' = AfterToolCall(agent, r.output)
           /\ fs' = r.fs
           /\ dirs' = r.dirs
           /\ lastEdit' = r.edit
    /\ UNCHANGED agentFrame

\* After the for loop: the next chat request (a chat that raises ends the
\* run).
AgentChat ==
    /\ SdkLive
    /\ agent.pc = "tools"
    /\ agent.index > Len(agent.calls)
    /\ \E resp \in LLMResponses \cup {NoResponse} :
           agent' = IF resp = NoResponse
                        THEN [agent EXCEPT !.pc = "ended"]
                        ELSE [agent EXCEPT !.pc = "loop",
                                           !.response = resp,
                                           !.consumed = FALSE]
    /\ lastEdit' = NoEdit
    /\ UNCHANGED << fs, dirs >>
    /\ UNCHANGED agentFrame


Next ==
    \/ SdkConstruct
    \/ CliConstruct
    \/ ShellConstruct
    \/ FilesRead
    \/ FilesWrite
    \/ CommandsRun
    \/ RunCode
    \/ Stop
    \/ Discard
    \/ Finalize
    \/ EngineEvent
    \/ CliRun
    \/ RunInteractiveShell

Spec == Init /\ [][Next]_vars

\* The program while it constructs at most MaxSessions sandbox objects.
NextSession ==
    \/ SdkConstruct /\ instance' <= MaxSessions
    \/ CliConstruct /\ instance' <= MaxSessions
    \/ ShellConstruct /\ instance' <= MaxSessions
    \/ FilesRead
    \/ FilesWrite
    \/ CommandsRun
    \/ RunCode
    \/ Stop
    \/ Discard
    \/ Finalize
    \/ EngineEvent
    \/ CliRun
    \/ RunInteractiveShell

\* A session of the sdk variant is followed from an engine that holds the
\* execution image (provisioning is followed by SpecProvision).
InitSession == Init /\ (variant = "sdk" => imagePresent)

SpecSession == InitSession /\ [][NextSession]_vars

\* One sdk session whose callers submit scripts concurrently: each run_code
\* call is followed call by call, and the calls of the callers interleave.
NextScripts ==
    \/ SdkConstruct /\ instance' <= MaxSessions
    \/ \E c \in Callers : BeginRunCode(c)
    \/ \E c \in Callers : WriteScript(c)
    \/ \E c \in Callers : ExecScript(c)
    \/ \E c \in Callers : DeleteScript(c)

SpecScripts == InitSession /\ [][NextScripts]_vars

\* The copy-only (cli) sandbox alone, for at most MaxSessions sandbox objects.
NextCli ==
    \/ CliConstruct /\ instance' <= MaxSessions
    \/ CliRun
    \/ Discard

SpecCli == Init /\ [][NextCli]_vars

\* The code agent: one sdk sandbox over a cloned repository, and one call of
\* CodeAgent.run on it.
InitAgent ==
    /\ InitWith(RepoFs)
    /\ variant = "sdk"
    /\ imagePresent
    /\ \A c \in ContainerIds : containers[c] = "none"

NextAgent ==
    \/ SdkConstruct /\ instance' <= MaxSessions
    \/ AgentStart
    \/ AgentStep
    \/ ToolCallRejected
    \/ ToolCallRunShell
    \/ ToolCallEditFile
    \/ AgentChat

SpecAgent == InitAgent /\ [][NextAgent]_vars

\* The image-provisioning part of the program alone: constructors and the
\* end of sandbox objects (no other operation reads or changes the image).
NextProvision ==
    \/ SdkConstruct
    \/ CliConstruct
    \/ ShellConstruct
    \/ Discard
    \/ Finalize

SpecProvision == Init /\ [][NextProvision]_vars

\* ----------------------------------------------------------------- claims
Listed(c) == containers[c] \in {"created", "running", "exited"}

\* The containers the current sandbox instance asked the engine to create.
SessionContainers ==
    { createLog[i].id : i \in { j \in DOMAIN createLog : createLog[j].instance = instance } }

SessionOps == { "__init__", "run", "read", "write", "run_code", "stop", "shell" }

\* C1: after stop(), or after any session operation that ended with an
\* exception, the sandbox holds no container id and the engine lists no
\* container the session created, whatever the engine answered (its stop or
\* remove call included).
C1_RemovedAfterStopOrException ==
    (last.op = "stop" \/ (last.op \in SessionOps /\ last.exc # "none"))
        => (container_id = 0 /\ \A c \in SessionContainers : ~Listed(c))

\* C2: a files.write(path, content) followed directly by files.read(path), or
\* by `cat path` through commands.run, whose command ran in the container,
\* gives back exactly the written content (and exit code 0 for cat).
C2_WriteReadRoundTrip ==
    (lastWrite.written /\ last.op \in {"read", "run"} /\ last.path = lastWrite.path
        /\ last.target # -1)
        => /\ last.exc = "none"
           /\ last.stdout = lastWrite.content
           /\ last.op = "run" => last.exit_code = 0

Validating == variant \in {"cli", "shell"}

\* C3: validation raises SecurityEnvironmentError whenever no security option
\* of the engine advertises rootless mode, whatever the other fields hold.
C3_NoRootlessFails ==
    (Validating /\ last.op = "__init__" /\ ~AdvertisesRootless(info))
        => last.exc = "SecurityEnvironmentError"

\* C4: validation raises SecurityEnvironmentError whenever runsc is not a key
\* of the engine's runtimes, whatever the other fields hold.
C4_NoRunscFails ==
    (Validating /\ last.op = "__init__" /\ ~RunscRegistered(info))
        => last.exc = "SecurityEnvironmentError"

\* C5: a target command that ran and exited non-zero is returned as a result
\* record carrying that exit code (with a non-empty stderr for an invalid
\* executable); the run operation raises nothing because of it.
C5_TargetFailureIsData ==
    (last.op = "run" /\ last.target \notin {-1, 0})
        => /\ last.exc = "none"
           /\ last.exit_code = last.target
           /\ last.target = 127 => last.stderr # ""

\* C6: once stop() has returned, commands.run, files.read, files.write and
\* run_code each raise the "container not running" condition.
C6_OperationsAfterStopRaise ==
    (variant = "sdk" /\ stopped /\ last.op \in {"run", "read", "write", "run_code"})
        => last.exc = "RuntimeError"

\* C7: every container-creation request is issued by an instance whose
\* security validation succeeded, never after a SecurityEnvironmentError.
C7_ValidationBeforeCreate ==
    \A i \in DOMAIN createLog : createLog[i].validated /\ ~createLog[i].afterSecError

\* C8: an ensure-image call that finds the image present builds nothing; one
\* that finds it missing invokes one build; once a call has left the image
\* present no later call builds. So the build count is 0 when the image was
\* there from the start and 1 when the first call found it missing and built it.
C8_ImageProvisioningIdempotent ==
    /\ \A i \in DOMAIN ensures :
        /\ ensures[i].before => ~ensures[i].built
        /\ (~ensures[i].before /\ ensures[i].looked) => ensures[i].built
        /\ \A j \in DOMAIN ensures : (i < j /\ ensures[i].after) => ~ensures[j].built
    /\ builds = Cardinality({ i \in DOMAIN ensures : ensures[i].built })
    /\ (ensures # <<>> /\ ensures[1].before) => builds = 0
    /\ (ensures # <<>> /\ ~ensures[1].before /\ ensures[1].after) => builds = 1

\* Two ensure-image calls: the first found the image missing and built it,
\* the second found it present.
C8_Witness ==
    /\ Len(ensures) = 2
    /\ ~ensures[1].before /\ ensures[1].built /\ ensures[1].after
    /\ ensures[2].before /\ ensures[2].looked
    /\ builds = 1

NonRootUidGid(user) == user \notin {"", "0", "0:0", "root"}

Hardened(o) ==
    /\ o.runtime = "runsc"
    /\ o.capDrop = "ALL"
    /\ o.securityOpt = "no-new-privileges"
    /\ NonRootUidGid(o.user)
    /\ o.network # ""

\* C9: every container-creation request carries the runsc runtime, the drop
\* of all capabilities, no-new-privileges, a non-root UID:GID and a network mode.
C9_EveryCreateHardened ==
    \A i \in DOMAIN createLog : Hardened(createLog[i].options)

HostMounts(o) == { m \in o.mounts : m.host }

WorkspaceBind(m) == m.host /\ m.target \in {"/app/workspace", "/workspace"}

ShadowMount(m) == m.target \in {"/app/workspace/.venv", "/app/workspace/venv"}

\* C10: every container is created with no host mount, or with exactly one
\* workspace bind and otherwise only shadow mounts over virtual-environment
\* directories; the copy-only (cli) sandbox mounts nothing at all.
C10_MountPolicy ==
    \A i \in DOMAIN createLog :
        LET o == createLog[i].options IN
        /\ \/ HostMounts(o) = {}
           \/ /\ Cardinality({ m \in HostMounts(o) : WorkspaceBind(m) }) = 1
              /\ \A m \in HostMounts(o) : WorkspaceBind(m) \/ ShadowMount(m)
        /\ createLog[i].variant = "cli" => o.mounts = {}

\* The engine calls that create a container, and the container the latest
\* creation request was for.
CreateCalls == { "create", "run" }

LatestRequested == createLog[Len(createLog)].id

\* The latest operation failed at an engine call of its create/start part.
CreateOrStartFailed ==
    \/ variant = "sdk" /\ last.op = "__init__" /\ last.stderr = "container"
    \/ variant = "cli" /\ last.op = "run" /\ last.exc # "none" /\ last.target = -1
    \/ variant = "shell" /\ last.op = "shell" /\ last.target = 125

\* C11: an engine failure during container create or start (copy-in included)
\* leaves the operation as ContainerRuntimeError, and when the engine had
\* created the container the operation sent a remove for it first.
C11_CreateFailureWrappedAndRemoved ==
    CreateOrStartFailed
        => /\ last.exc = "ContainerRuntimeError"
           /\ (Range(lastCalls) \cap CreateCalls # {} /\ containers[LatestRequested] # "none")
                  => "remove" \in Range(lastCalls)

TeardownOps == { "stop", "__del__" }

\* After a stop() or destructor call the handle is Removed, and a call that
\* reached the engine stopped the container and then removed it.
TeardownLeavesRemoved ==
    last.op \in TeardownOps
        => /\ container_id = 0
           /\ \A c \in SessionContainers : ~Listed(c)
           /\ lastCalls \in { <<>>, <<"get">>, <<"get", "stop", "remove">> }

\* A stop() or destructor call on an instance whose stop() has returned.
FurtherTeardownIsNoOp ==
    (stopped /\ last'.op \in TeardownOps)
        => /\ last'.exc = "none"
           /\ last'.stderr \in { "", "none" }
           /\ lastCalls' = <<>>
           /\ container_id' = 0
           /\ containers' = containers

\* C12: stop is safe to call any number of times in any lifecycle state: the
\* first call stops, then removes the container and leaves the handle
\* Removed; every further stop() or destructor call raises nothing, sends no
\* stop or remove to the engine and leaves the handle Removed.
C12_StopIdempotent == []TeardownLeavesRemoved /\ [][FurtherTeardownIsNoOp]_vars

\* A session has ended: the sdk sandbox object was finalized, a run of the
\* cli or shell variant is over.
SessionEnded ==
    \/ variant = "sdk" /\ last.op = "__del__"
    \/ variant = "cli" /\ last.op = "run"
    \/ variant = "shell" /\ last.op = "shell"

\* The engine created a container on this session's request.
SessionCreatedContainer ==
    /\ createLog # <<>>
    /\ createLog[Len(createLog)].instance = instance
    /\ containers[LatestRequested] # "none"

\* C13: over a whole session that has ended (by stop(), the destructor, both,
\* or an exception) the engine received exactly one removal of the session's
\* container: not zero, not two.
C13_TeardownExactlyOnce ==
    (SessionEnded /\ SessionCreatedContainer) => removals = 1

\* The containers the current instance created or holds.
Owned == SessionContainers \cup (IF container_id # 0 THEN {container_id} ELSE {})

AtMostOneOwned == Cardinality({ c \in Owned : Listed(c) }) <= 1

\* A creation request of an instance that already has a container listed.
NoSecondCreate ==
    (createLog' # createLog /\ instance' = instance) => \A c \in Owned : ~Listed(c)

\* C14: an instance never owns more than one container that is not Removed,
\* and never asks for a new container while an earlier one of it still exists.
C14_SingleContainerPerInstance == []AtMostOneOwned /\ [][NoSecondCreate]_vars

\* The latest operation was a validating constructor whose engine info call
\* was answered ("check failed" before the rootless and runtime checks is
\* the failure of that call).
ValidationRan == Validating /\ last.op = "__init__"

\* C15: validation checks rootless mode, then the isolation runtime, then the
\* image, and reports the first violation: without rootless the error names
\* rootless; with rootless and without the runtime it names the runtime; the
\* image is reported only when both earlier checks pass.
C15_ValidationOrder ==
    ValidationRan
        => /\ (~AdvertisesRootless(info) /\ last.stderr # "check failed")
                  => (last.exc = "SecurityEnvironmentError" /\ last.stderr = "rootless")
           /\ (AdvertisesRootless(info) /\ ~RunscRegistered(info)
                  /\ last.stderr # "check failed")
                  => (last.exc = "SecurityEnvironmentError" /\ last.stderr = "runsc")
           /\ last.stderr = "image" => (AdvertisesRootless(info) /\ RunscRegistered(info))

\* C16: with rootless mode and the runtime present, a missing image makes the
\* shell sandbox's validation fail, and the "image not found" report is
\* distinct from the generic "environment check failed" one: it is raised
\* only when the image really is missing, never for another failure.
C16_ImageMissingDistinct ==
    (variant = "shell" /\ last.op = "__init__")
        => /\ (AdvertisesRootless(info) /\ RunscRegistered(info) /\ ~imagePresent)
                  => /\ last.exc = "SecurityEnvironmentError"
                     /\ last.stderr \in { "image", "check failed" }
           /\ last.stderr = "image"
                  => /\ last.exc = "SecurityEnvironmentError"
                     /\ AdvertisesRootless(info) /\ RunscRegistered(info) /\ ~imagePresent
           /\ last.stderr = "check failed" => last.exc = "SecurityEnvironmentError"

\* A validation that reported the missing image.
C16_Witness ==
    /\ variant = "shell" /\ last.op = "__init__"
    /\ AdvertisesRootless(info) /\ RunscRegistered(info) /\ ~imagePresent
    /\ last.exc = "SecurityEnvironmentError" /\ last.stderr = "image"

\* C17: with a container id set, a commands.run whose command could not be
\* executed (the container lookup or the exec call failed) raises nothing and
\* returns a result with empty stdout, a diagnostic stderr and a non-zero
\* exit code.
C17_TransportFailureIsResult ==
    (variant = "sdk" /\ last.op = "run" /\ container_id # 0 /\ last.target = -1)
        => /\ last.exc = "none"
           /\ last.stdout = <<>>
           /\ last.stderr # ""
           /\ last.exit_code > 0

\* The texts of the infrastructure failures of a session: the container is
\* not running, a file transfer failed.
InfrastructureTexts == { ExcText("RuntimeError"), ExcText("Exception") }

\* C18: no operation returns an ordinary result whose stderr carries the text
\* of a container-not-running or file-transfer failure; such failures reach
\* the caller as exceptions.
C18_InfrastructureErrorsRaise ==
    (last.op \in SessionOps /\ last.exc = "none") => last.stderr \notin InfrastructureTexts

\* C19: a files.write whose directory creation or archive injection failed
\* raises; after any write attempt the file at the destination is the complete
\* new content or what it was before; after a failed directory creation no
\* injection is attempted.
C19_WriteFailsCleanly ==
    (last.op = "write" /\ lastWrite # NoWrite)
        => /\ (lastWrite.mkdirFailed \/ lastWrite.putFailed) => last.exc # "none"
           /\ fs[WriteDest(lastWrite.path)] \in
                  { Utf8Encode(lastWrite.content), lastWrite.before }
           /\ lastWrite.mkdirFailed => ~lastWrite.putCalled

\* The read reported "file not found or unreadable".
ReadReportsNotFound == last.exc = "Exception" /\ last.stderr = "Failed to read file"

\* C20: a files.read that fails tells its caller which of the two happened:
\* it reports "file not found or unreadable" exactly when the read command ran
\* in the container and exited non-zero, and something else when the
\* transfer channel (the lookup or the exec call) failed.
C20_ReadFailureKinds ==
    (variant = "sdk" /\ last.op = "read" /\ last.exc # "none")
        => (ReadReportsNotFound <=> last.target # -1)

\* C21: whenever run_code has written its script file, it calls the delete of
\* that file before it returns, and a delete that fails leaves the returned
\* logs as the interpreter run produced them.
C21_ScriptDeletedLogsKept ==
    (last.op = "run_code" /\ lastScript.written)
        => /\ lastScript.deleteAttempted
           /\ lastScript.deleteFailed
                  => (last.stdout = lastScript.stdout /\ last.stderr = lastScript.stderr)

\* Caller c is inside run_code and has not returned.
InCall(c) == scriptCalls[c].pc \in {"write", "exec", "delete"}

\* C22: two run_code calls in progress against the same container never use
\* the same temporary path, so the interpreter of a call is started on that
\* call's own script only and its rm deletes that call's own script only.
C22_ScriptNamesUnique ==
    \A c, d \in Callers :
        /\ (c # d /\ InCall(c) /\ InCall(d)) => scriptCalls[c].name # scriptCalls[d].name
        /\ scriptCalls[c].ran \in { NoFile, Utf8Encode(CallerBody(c)) }
        /\ scriptCalls[c].removed \in { NoFile, Utf8Encode(CallerBody(c)) }

ResourceCeilings(o) == o.memory = "8g" /\ o.cpus = "4"

\* C23: every container-creation request of the copy-only sandbox's run()
\* carries a memory cap of 8 GB and a CPU limit of 4 cores.
C23_CreateHasResourceCeilings ==
    \A i \in DOMAIN createLog :
        createLog[i].variant = "cli" => ResourceCeilings(createLog[i].options)

\* The engine operations of run(), in the order of the lifecycle.
LifecycleOrder == <<"create", "cp_in", "start", "cp_out", "remove">>

Position(call) == CHOOSE i \in DOMAIN LifecycleOrder : LifecycleOrder[i] = call

\* The latest operation was a run() of the copy-only sandbox.
CliRan == variant = "cli" /\ last.op = "run"

\* C24: a run() issues create, copy in, start, copy out, remove in this order,
\* each at most once, and when the engine created a container the last
\* operation of the call is its removal, on the success path and on every
\* error path.
C24_LifecycleOrder ==
    CliRan
        => /\ Range(lastCalls) \subseteq Range(LifecycleOrder)
           /\ \A i, j \in DOMAIN lastCalls :
                  i < j => Position(lastCalls[i]) < Position(lastCalls[j])
           /\ lastCalls # <<>> /\ lastCalls[1] = "create"
           /\ containers[LatestRequested] # "none"
                  => lastCalls[Len(lastCalls)] = "remove"

\* A run() whose copy-in failed after the container was created: the removal
\* was still issued, last.
C24_Witness ==
    /\ CliRan /\ last.exc = "ContainerRuntimeError"
    /\ lastCalls = <<"create", "cp_in", "remove">>
    /\ containers[LatestRequested] # "none"

\* Number of times a call occurs in a sequence of calls.
Count(issued, call) == Cardinality({ i \in DOMAIN issued : issued[i] = call })

\* A constructor of the sdk variant reached the container part and the
\* engine answered its lookup of the session's container.
BringUpAnswered ==
    /\ variant = "sdk"
    /\ instance' = instance + 1
    /\ lastCalls' # <<>>
    /\ ~(last'.stderr = "container" /\ lastCalls' = <<"get">>)

\* What the bring-up did, against the status the container had before it.
BringUpIdempotent ==
    BringUpAnswered
        => LET id == instance'
               status == containers[id]
           IN  /\ status = "running"
                      => /\ lastCalls' = <<"get">>
                         /\ createLog' = createLog
                         /\ container_id' = id
               /\ status \in {"created", "exited"}
                      => /\ Count(lastCalls', "start") = 1
                         /\ "run" \notin Range(lastCalls')
                         /\ createLog' = createLog
                         /\ last'.stderr # "container" => container_id' = id
               /\ ("run" \in Range(lastCalls') \/ createLog' # createLog)
                      => status \in {"none", "removed"}

InfoUnreadable ==
    Validating /\ last.op = "__init__" /\ last.stderr \in { "check failed", "no docker" }

\* C26: a validation that cannot read the engine's configuration ends with
\* SecurityEnvironmentError: it never succeeds and never lets an exception of
\* another type out.
C26_ValidationFailsClosed ==
    InfoUnreadable => (last.exc = "SecurityEnvironmentError" /\ ~validated /\ phase # "live")

EditTarget == Resolve(WorkDir, lastEdit.path)

\* C28: EditFile changes the target file only after its new content passed
\* the syntax check: after an EditFile.run that changed the target, the mv
\* was issued after py_compile returned 0 and the target holds the new
\* content, which compiles; after a run whose check failed or one of whose
\* sandbox calls failed, the target holds what it held before.
C28_EditOnlyAfterSyntaxCheck ==
    lastEdit # NoEdit
        => /\ fs[EditTarget] # lastEdit.before
                  => /\ lastEdit.mvIssued /\ lastEdit.compileExit = 0
                     /\ fs[EditTarget] = Utf8Encode(lastEdit.final)
                     /\ Compiles(Utf8Encode(lastEdit.final))
           /\ (lastEdit.compileExit > 0 \/ lastEdit.failed)
                  => fs[EditTarget] = lastEdit.before

\* The tool results added for the first n tool calls of the message.
ResultsAnswer(n) ==
    /\ Len(agent.results) = n
    /\ \A i \in 1..n :
           /\ agent.results[i].id = agent.calls[i].id
           /\ Dispatch(agent.calls[i]) \notin Registry => agent.results[i].kind = "error"
           /\ agent.results[i].cause = "exception" => agent.results[i].kind = "error"

C30_EveryResponseConsumed == agent.pc = "ended" => agent.consumed

====
